---------------------------- MODULE Spec2Model ----------------------------
(***************************************************************************)
(* The two WeasyPrint bridge processes:                                    *)
(*   weasyprint_bridge_optimized.py  (fast / persistent mode)              *)
(*   weasyprint_bridge_secure.py     (secure / single-shot mode)           *)
(* One process is modelled per behaviour; `mode` says which script runs.   *)
(* Standard input is a finite sequence of lines followed by end-of-file.   *)
(***************************************************************************)
EXTENDS Integers, Sequences, FiniteSets

VARIABLES
    mode,          \* "fast" or "secure": which script is running
    stdin,         \* the lines the caller wrote, then end-of-file
    pos,           \* index of the next line sys.stdin.readline() returns
    pc,            \* position of the process in main()
    line,          \* local `line`
    bound,         \* whether local `input_data` has been assigned ('input_data' in locals())
    input_data,    \* local `input_data`: the value json.loads returned
    html_content,  \* local `html_content`
    css_content,   \* local `css_content`
    request_id,    \* local `request_id` (secure mode)
    pdf_bytes,     \* local `pdf_bytes`
    exc,           \* the exception being propagated / handled, "none" if none
    stdout,        \* what has reached standard output
    stderr,        \* what has reached the diagnostic stream
    exit_code,     \* process exit status, -1 while the process is running
    renders        \* history of the calls made to the rendering library

vars == << mode, stdin, pos, pc, line, bound, input_data, html_content,
           css_content, request_id, pdf_bytes, exc, stdout, stderr,
           exit_code, renders >>

-----------------------------------------------------------------------------
(* Bounds and input alphabet *)

MaxLines == 2

None == "<None>"      \* Python's None
Unset == "<unset>"    \* a local that has not been assigned yet

Keys == {"html", "css", "request_id"}

HtmlVals == {"", "<p>a</p>", "<bad>"}
CssVals == {"p{}"}
IdVals == {"r1", "r2"}

\* A JSON object: a function from the keys that are present to their values.
MkObj(K, h, c, r) ==
    [k \in K |-> IF k = "html" THEN h ELSE IF k = "css" THEN c ELSE r]

Objects ==
    { MkObj(K, h, c, r) : K \in SUBSET Keys, h \in HtmlVals, c \in CssVals, r \in IdVals }

NoObj == MkObj({}, "", "", "")

\* The text of one input line, by what json.loads makes of it:
\*   "blank"   the line "\n"                (json.loads("") raises JSONDecodeError)
\*   "garbage" a line such as "{not json\n" (JSONDecodeError)
\*   "array"   the line "[]\n"              (valid JSON, not an object)
\*   "object"  a line holding the JSON object obj
Lines ==
    { [t |-> "blank", obj |-> NoObj], [t |-> "garbage", obj |-> NoObj],
      [t |-> "array", obj |-> NoObj] }
    \cup { [t |-> "object", obj |-> d] : d \in Objects }

RECURSIVE SeqsUpTo(_, _)
SeqsUpTo(S, n) ==
    IF n = 0 THEN { << >> }
    ELSE LET shorter == SeqsUpTo(S, n - 1)
         IN  shorter \cup { Append(s, x) : s \in { q \in shorter : Len(q) = n - 1 }, x \in S }

-----------------------------------------------------------------------------
(* Pure helpers *)

\* json.loads(line.strip()): the exception it raises, or the value it returns.
JsonLoads(l) ==
    IF l.t \in {"blank", "garbage"}
    THEN [err |-> "JSONDecodeError", isdict |-> FALSE, value |-> NoObj]
    ELSE IF l.t = "array"
    THEN [err |-> "none", isdict |-> FALSE, value |-> NoObj]
    ELSE [err |-> "none", isdict |-> TRUE, value |-> l.obj]

\* dict.get(key, default)
Get(d, k, default) == IF k \in DOMAIN d THEN d[k] ELSE default

\* Mutant of Falsy: the check `if html_content is None`, which lets "" through.
Falsy_NoneOnly(v) == v = None

\* Python truthiness of a str-or-None value: `not v`
Falsy(v) == v = "" \/ v = None

\* The stylesheets list generate_pdf_* builds: the CSS only when css_content is truthy.
Stylesheets(css) == IF Falsy(css) THEN << >> ELSE << css >>

\* Whether the rendering library raises on this document.
RenderRaises(html, css) == html = "<bad>"

\* The bytes html_doc.write_pdf leaves in the buffer: a PDF signature, the
\* rendered document and stylesheet, and the trailer.
RenderBytes(html, css) ==
    [i \in 1..(Len(Stylesheets(css)) + 3) |->
        [byte |-> (<< "%PDF-", html >> \o Stylesheets(css) \o << "%%EOF" >>)[i]]]

\* base64.b64encode(pdf_bytes).decode('utf-8')
B64Encode(bytes) == [i \in 1..Len(bytes) |-> [b64 |-> bytes[i].byte]]

Ready == [kind |-> "ready", text |-> "WeasyPrint bridge ready"]
ErrorPayload(e) == [kind |-> "error_json", text |-> e]
Traceback(e) == [kind |-> "traceback", text |-> e]

Prefix(s, n) == SubSeq(s, 1, n)

-----------------------------------------------------------------------------
Init ==
    /\ mode \in {"fast", "secure"}
    /\ stdin \in SeqsUpTo(Lines, MaxLines)
    /\ pos = 1
    /\ pc = "start"
    /\ line = [t |-> Unset, obj |-> NoObj]
    /\ bound = FALSE
    /\ input_data = [isdict |-> FALSE, value |-> NoObj]
    /\ html_content = Unset
    /\ css_content = Unset
    /\ request_id = Unset
    /\ pdf_bytes = << >>
    /\ exc = "none"
    /\ stdout = << >>
    /\ stderr = << >>
    /\ exit_code = -1
    /\ renders = << >>

-----------------------------------------------------------------------------
(* Fast / persistent mode: weasyprint_bridge_optimized.py main() *)

\* Mutant of FastReady: the readiness line printed on standard output.
FastReady_OnStdout ==
    /\ mode = "fast" /\ pc = "start"
    /\ stdout' = Append(stdout, Ready)
    /\ pc' = "read"
    /\ UNCHANGED << mode, stdin, pos, line, bound, input_data, html_content,
                    css_content, request_id, pdf_bytes, exc, stderr,
                    exit_code, renders >>

\* Signal readiness on the diagnostic stream, then enter the loop.
FastReady ==
    /\ mode = "fast" /\ pc = "start"
    /\ stderr' = Append(stderr, Ready)
    /\ pc' = "read"
    /\ UNCHANGED << mode, stdin, pos, line, bound, input_data, html_content,
                    css_content, request_id, pdf_bytes, exc, stdout,
                    exit_code, renders >>

\* Mutant of FastReadline: end-of-file does not leave the loop
\* (`if not line: continue`), so readline is called again for ever.
FastReadline_NoBreak ==
    /\ mode = "fast" /\ pc = "read"
    /\ IF pos > Len(stdin)
       THEN /\ pc' = "read"
            /\ UNCHANGED << pos, line, exit_code >>
       ELSE /\ line' = stdin[pos]
            /\ pos' = pos + 1
            /\ pc' = "parse"
            /\ UNCHANGED exit_code
    /\ UNCHANGED << mode, stdin, bound, input_data, html_content, css_content,
                    request_id, pdf_bytes, exc, stdout, stderr, renders >>

\* line = sys.stdin.readline(); if not line: break
FastReadline ==
    /\ mode = "fast" /\ pc = "read"
    /\ IF pos > Len(stdin)
       THEN /\ pc' = "done"
            /\ exit_code' = 0
            /\ UNCHANGED << pos, line >>
       ELSE /\ line' = stdin[pos]
            /\ pos' = pos + 1
            /\ pc' = "parse"
            /\ UNCHANGED exit_code
    /\ UNCHANGED << mode, stdin, bound, input_data, html_content, css_content,
                    request_id, pdf_bytes, exc, stdout, stderr, renders >>

\* Mutant of FastParse: no `except json.JSONDecodeError` clause, so a parse
\* error reaches the general handler.
FastParse_NoSkip ==
    /\ mode = "fast" /\ pc = "parse"
    /\ LET r == JsonLoads(line)
       IN  IF r.err = "JSONDecodeError"
           THEN /\ pc' = "except"
                /\ exc' = "JSONDecodeError"
                /\ UNCHANGED << bound, input_data >>
           ELSE /\ bound' = TRUE
                /\ input_data' = [isdict |-> r.isdict, value |-> r.value]
                /\ pc' = "extract"
                /\ UNCHANGED exc
    /\ UNCHANGED << mode, stdin, pos, line, html_content, css_content,
                    request_id, pdf_bytes, stdout, stderr, exit_code,
                    renders >>

\* input_data = json.loads(line.strip());
\* except json.JSONDecodeError: continue
FastParse ==
    /\ mode = "fast" /\ pc = "parse"
    /\ LET r == JsonLoads(line)
       IN  IF r.err = "JSONDecodeError"
           THEN /\ pc' = "read"
                /\ UNCHANGED << bound, input_data >>
           ELSE /\ bound' = TRUE
                /\ input_data' = [isdict |-> r.isdict, value |-> r.value]
                /\ pc' = "extract"
    /\ UNCHANGED << mode, stdin, pos, line, html_content, css_content,
                    request_id, pdf_bytes, exc, stdout, stderr, exit_code,
                    renders >>

\* html_content = input_data.get('html', ''); css_content = input_data.get('css', None)
\* if not html_content: raise ValueError("HTML content is required")
FastExtract ==
    /\ mode = "fast" /\ pc = "extract"
    /\ IF ~input_data.isdict
       THEN /\ exc' = "AttributeError"
            /\ pc' = "except"
            /\ UNCHANGED << html_content, css_content >>
       ELSE /\ html_content' = Get(input_data.value, "html", "")
            /\ css_content' = Get(input_data.value, "css", None)
            /\ IF Falsy(html_content')
               THEN exc' = "ValueError" /\ pc' = "except"
               ELSE exc' = exc /\ pc' = "render"
    /\ UNCHANGED << mode, stdin, pos, line, bound, input_data, request_id,
                    pdf_bytes, stdout, stderr, exit_code, renders >>

\* pdf_bytes = generate_pdf_fast(html_content, css_content)
FastRender ==
    /\ mode = "fast" /\ pc = "render"
    /\ renders' = Append(renders, [at |-> pos - 1, html |-> html_content, css |-> css_content])
    /\ IF RenderRaises(html_content, css_content)
       THEN /\ exc' = "PDF generation failed"
            /\ pc' = "except"
            /\ UNCHANGED pdf_bytes
       ELSE /\ pdf_bytes' = RenderBytes(html_content, css_content)
            /\ pc' = "write"
            /\ UNCHANGED exc
    /\ UNCHANGED << mode, stdin, pos, line, bound, input_data, html_content,
                    css_content, request_id, stdout, stderr, exit_code >>

\* Mutant of FastWrite: the flush is missing, the bytes stay in the buffer
\* while the next line is read.
FastWrite_NoFlush ==
    /\ mode = "fast" /\ pc = "write"
    /\ pc' = "read"
    /\ UNCHANGED << mode, stdin, pos, line, bound, input_data, html_content,
                    css_content, request_id, pdf_bytes, exc, stdout, stderr,
                    exit_code, renders >>

\* sys.stdout.buffer.write(pdf_bytes); sys.stdout.flush()
\* Either every byte reaches standard output, or the write raises OSError
\* after the pipe accepted n bytes, n < len(pdf_bytes).
FastWrite ==
    /\ mode = "fast" /\ pc = "write"
    /\ \E n \in 0..Len(pdf_bytes) :
          /\ stdout' = stdout \o Prefix(pdf_bytes, n)
          /\ IF n = Len(pdf_bytes)
             THEN pc' = "read" /\ exc' = exc
             ELSE pc' = "except" /\ exc' = "OSError"
    /\ UNCHANGED << mode, stdin, pos, line, bound, input_data, html_content,
                    css_content, request_id, pdf_bytes, stderr, exit_code,
                    renders >>

\* Mutant of FastExcept: `continue` instead of `break` after the payload.
FastExcept_Continue ==
    /\ mode = "fast" /\ pc = "except"
    /\ stderr' = Append(stderr, ErrorPayload(exc))
    /\ pc' = "read"
    /\ UNCHANGED << mode, stdin, pos, line, bound, input_data, html_content,
                    css_content, request_id, pdf_bytes, exc, stdout,
                    exit_code, renders >>

\* except Exception as e: write the JSON error payload to stderr; break
FastExcept ==
    /\ mode = "fast" /\ pc = "except"
    /\ stderr' = Append(stderr, ErrorPayload(exc))
    /\ pc' = "done"
    /\ exit_code' = 0
    /\ UNCHANGED << mode, stdin, pos, line, bound, input_data, html_content,
                    css_content, request_id, pdf_bytes, exc, stdout, renders >>

-----------------------------------------------------------------------------
(* Secure / single-shot mode: weasyprint_bridge_secure.py main() *)

FailureResponse(rid, e) == [success |-> FALSE, request_id |-> rid, error |-> e]

SuccessResponse(rid, bytes) ==
    [success |-> TRUE, request_id |-> rid, pdf_base64 |-> B64Encode(bytes),
     size |-> Len(bytes)]

SecReady ==
    /\ mode = "secure" /\ pc = "start"
    /\ stderr' = Append(stderr, Ready)
    /\ pc' = "read"
    /\ UNCHANGED << mode, stdin, pos, line, bound, input_data, html_content,
                    css_content, request_id, pdf_bytes, exc, stdout,
                    exit_code, renders >>

\* line = sys.stdin.readline(); if not line: sys.exit(1)
\* SystemExit is not an Exception: the handler of main() does not catch it.
SecReadline ==
    /\ mode = "secure" /\ pc = "read"
    /\ IF pos > Len(stdin)
       THEN /\ pc' = "done"
            /\ exit_code' = 1
            /\ UNCHANGED << pos, line >>
       ELSE /\ line' = stdin[pos]
            /\ pos' = pos + 1
            /\ pc' = "parse"
            /\ UNCHANGED exit_code
    /\ UNCHANGED << mode, stdin, bound, input_data, html_content, css_content,
                    request_id, pdf_bytes, exc, stdout, stderr, renders >>

\* input_data = json.loads(line.strip())
SecParse ==
    /\ mode = "secure" /\ pc = "parse"
    /\ LET r == JsonLoads(line)
       IN  IF r.err = "JSONDecodeError"
           THEN /\ exc' = "JSONDecodeError"
                /\ pc' = "except"
                /\ UNCHANGED << bound, input_data >>
           ELSE /\ bound' = TRUE
                /\ input_data' = [isdict |-> r.isdict, value |-> r.value]
                /\ pc' = "extract"
                /\ UNCHANGED exc
    /\ UNCHANGED << mode, stdin, pos, line, html_content, css_content,
                    request_id, pdf_bytes, stdout, stderr, exit_code, renders >>

\* the three input_data.get calls, then
\* if not html_content: print the failure response; sys.exit(1)
SecExtract ==
    /\ mode = "secure" /\ pc = "extract"
    /\ IF ~input_data.isdict
       THEN /\ exc' = "AttributeError"
            /\ pc' = "except"
            /\ UNCHANGED << html_content, css_content, request_id, stdout, exit_code >>
       ELSE /\ html_content' = Get(input_data.value, "html", "")
            /\ css_content' = Get(input_data.value, "css", None)
            /\ request_id' = Get(input_data.value, "request_id", "unknown")
            /\ UNCHANGED exc
            /\ IF Falsy(html_content')
               THEN /\ stdout' = Append(stdout, FailureResponse(request_id', "HTML content is required"))
                    /\ exit_code' = 1
                    /\ pc' = "done"
               ELSE /\ pc' = "render"
                    /\ UNCHANGED << stdout, exit_code >>
    /\ UNCHANGED << mode, stdin, pos, line, bound, input_data, pdf_bytes,
                    stderr, renders >>

\* pdf_bytes = generate_pdf_secure(html_content, css_content)
SecRender ==
    /\ mode = "secure" /\ pc = "render"
    /\ renders' = Append(renders, [at |-> pos - 1, html |-> html_content, css |-> css_content])
    /\ IF RenderRaises(html_content, css_content)
       THEN /\ exc' = "PDF generation failed"
            /\ pc' = "except"
            /\ UNCHANGED pdf_bytes
       ELSE /\ pdf_bytes' = RenderBytes(html_content, css_content)
            /\ pc' = "respond"
            /\ UNCHANGED exc
    /\ UNCHANGED << mode, stdin, pos, line, bound, input_data, html_content,
                    css_content, request_id, stdout, stderr, exit_code >>

\* Mutant of SecRespond: the response is printed and the next line is read
\* (the persistent loop of the other script) instead of sys.exit(0).
SecRespond_Loop ==
    /\ mode = "secure" /\ pc = "respond"
    /\ stdout' = Append(stdout, SuccessResponse(request_id, pdf_bytes))
    /\ pc' = "read"
    /\ UNCHANGED << mode, stdin, pos, line, bound, input_data, html_content,
                    css_content, request_id, pdf_bytes, exc, stderr,
                    exit_code, renders >>

\* print(json.dumps(response)); sys.exit(0)
SecRespond ==
    /\ mode = "secure" /\ pc = "respond"
    /\ stdout' = Append(stdout, SuccessResponse(request_id, pdf_bytes))
    /\ exit_code' = 0
    /\ pc' = "done"
    /\ UNCHANGED << mode, stdin, pos, line, bound, input_data, html_content,
                    css_content, request_id, pdf_bytes, exc, stderr, renders >>

\* Mutant of HandlerRequestId: the handler always answers 'unknown'.
HandlerRequestId_Unknown == [raises |-> FALSE, rid |-> "unknown"]

\* The request_id expression of the handler:
\*   input_data.get('request_id', 'unknown') if 'input_data' in locals() else 'unknown'
\* On a bound input_data that is not a dict the .get raises AttributeError.
HandlerRequestId ==
    IF ~bound THEN [raises |-> FALSE, rid |-> "unknown"]
    ELSE IF ~input_data.isdict THEN [raises |-> TRUE, rid |-> "unknown"]
    ELSE [raises |-> FALSE, rid |-> Get(input_data.value, "request_id", "unknown")]

\* except Exception as e: print the failure response; sys.exit(1).
\* An exception raised while the response is built leaves main() uncaught:
\* the interpreter prints a traceback on stderr and exits with status 1.
SecExcept ==
    /\ mode = "secure" /\ pc = "except"
    /\ IF HandlerRequestId.raises
       THEN /\ stderr' = Append(stderr, Traceback("AttributeError"))
            /\ UNCHANGED stdout
       ELSE /\ stdout' = Append(stdout, FailureResponse(HandlerRequestId.rid, exc))
            /\ UNCHANGED stderr
    /\ exit_code' = 1
    /\ pc' = "done"
    /\ UNCHANGED << mode, stdin, pos, line, bound, input_data, html_content,
                    css_content, request_id, pdf_bytes, exc, renders >>

-----------------------------------------------------------------------------
Next ==
    \/ FastReady \/ FastReadline \/ FastParse \/ FastExtract
    \/ FastRender \/ FastWrite \/ FastExcept
    \/ SecReady \/ SecReadline \/ SecParse \/ SecExtract
    \/ SecRender \/ SecRespond \/ SecExcept

Spec == Init /\ [][Next]_vars

\* The interpreter keeps executing main() until the process ends.
LiveSpec == Spec /\ WF_vars(Next)

TypeOK ==
    /\ mode \in {"fast", "secure"}
    /\ pos \in 1..(Len(stdin) + 1)
    /\ pc \in {"start", "read", "parse", "extract", "render", "write",
               "respond", "except", "done"}
    /\ exit_code \in {-1, 0, 1}
    /\ (pc = "done") <=> (exit_code # -1)

-----------------------------------------------------------------------------
(* Vocabulary of the properties, stated on the input lines themselves *)

\* The line does not parse as JSON.
IsMalformed(l) == l.t \in {"blank", "garbage"}

\* The line holds a JSON object (a request).
IsRequest(l) == l.t = "object"

\* The request carries a non-empty html field.
HasHtml(l) == IsRequest(l) /\ "html" \in DOMAIN l.obj /\ l.obj["html"] # ""

\* A well-formed request with non-empty html whose render succeeds.
Renderable(l) ==
    HasHtml(l) /\ ~RenderRaises(l.obj["html"], Get(l.obj, "css", None))

\* The render result of a request; nothing for any other line.
LineOutput(l) ==
    IF Renderable(l)
    THEN RenderBytes(l.obj["html"], Get(l.obj, "css", None))
    ELSE << >>

\* The render results of input lines 1..k, concatenated in input order.
RECURSIVE OutputOf(_)
OutputOf(k) == IF k <= 0 THEN << >> ELSE OutputOf(k - 1) \o LineOutput(stdin[k])

\* The request_id a response to line l must carry.
ExpectedId(l) ==
    IF IsRequest(l) /\ "request_id" \in DOMAIN l.obj
    THEN l.obj["request_id"] ELSE "unknown"

IsFailureObject(r) ==
    /\ DOMAIN r = {"success", "request_id", "error"}
    /\ r.success = FALSE

IsSuccessObject(r) ==
    /\ DOMAIN r = {"success", "request_id", "pdf_base64", "size"}
    /\ r.success = TRUE

ReadyCount(s) == Cardinality({ i \in 1..Len(s) : s[i] = Ready })

PayloadCount(s) == Cardinality({ i \in 1..Len(s) : s[i].kind = "error_json" })

-----------------------------------------------------------------------------
(* C1 *)

\* C1: secure mode, every terminated run has written exactly one JSON object
\* to standard output, a success object or a failure object, and the exit
\* code is 0 exactly when that object has success = true (1 otherwise); this
\* for every standard input, end-of-file at once included.
C1_SecureAlwaysOneObject ==
    (mode = "secure" /\ pc = "done") =>
        /\ Len(stdout) = 1
        /\ IsSuccessObject(stdout[1]) \/ IsFailureObject(stdout[1])
        /\ exit_code \in {0, 1}
        /\ (exit_code = 0) <=> stdout[1].success

-----------------------------------------------------------------------------
(* C2 *)

\* C2: secure mode, whenever the handling of the line that was read fails
\* (empty or missing html, a line that is not JSON, a value on which field
\* extraction fails, a render exception) the process has, when it ends,
\* written a failure object with an error message and exits with status 1.
C2_SecureFailureAlwaysReported ==
    (mode = "secure" /\ pc = "done" /\ pos > 1 /\ ~Renderable(stdin[1])) =>
        /\ Len(stdout) = 1
        /\ IsFailureObject(stdout[1])
        /\ exit_code = 1

-----------------------------------------------------------------------------
(* C3 *)

\* C3: secure mode, every response written carries the request_id of the
\* input object when the field is present, and 'unknown' when it is absent
\* or the line could not be parsed.
C3_SecureRequestIdEchoed ==
    mode = "secure" =>
        \A i \in 1..Len(stdout) : stdout[i].request_id = ExpectedId(stdin[pos - 1])

\* A render failure answered by the handler with the request's own id.
C3_Witness ==
    /\ mode = "secure" /\ pc = "done"
    /\ exc = "PDF generation failed"
    /\ Len(stdout) = 1
    /\ stdout[1].request_id = "r2"
    /\ ExpectedId(stdin[1]) = "r2"

-----------------------------------------------------------------------------
(* C4 *)

\* C4: fast mode, while every line read so far is a well-formed request with
\* non-empty html whose render succeeds, standard output holds the render
\* results of those requests in input order and nothing else: all the bytes
\* of the requests before the current one are out whenever a line is read or
\* being handled, and a process that ends with no error payload on the
\* diagnostic stream has put out exactly the concatenation for every line.
C4_FastOutputInOrder ==
    (mode = "fast" /\ \A i \in 1..(pos - 1) : Renderable(stdin[i])) =>
        /\ \E n \in 0..Len(OutputOf(pos - 1)) : stdout = Prefix(OutputOf(pos - 1), n)
        /\ pc = "read" => stdout = OutputOf(pos - 1)
        /\ pc \in {"parse", "extract", "render", "write"} => stdout = OutputOf(pos - 2)
        /\ (pc = "done" /\ PayloadCount(stderr) = 0) =>
               (pos = Len(stdin) + 1 /\ stdout = OutputOf(Len(stdin)))

\* Two different requests answered, the second PDF after the first.
C4_Witness ==
    /\ mode = "fast" /\ pc = "done" /\ pos = 3
    /\ Renderable(stdin[1]) /\ Renderable(stdin[2])
    /\ LineOutput(stdin[1]) # LineOutput(stdin[2])
    /\ stdout = LineOutput(stdin[1]) \o LineOutput(stdin[2])

-----------------------------------------------------------------------------
(* C5 *)

\* C5: fast mode, a line that fails to parse as JSON (a blank line included)
\* puts nothing on standard output and nothing on the diagnostic stream,
\* does not end the loop, and the process goes back to reading; on an input
\* of malformed lines and renderable requests in any mix, a process that ends
\* with no error payload has read every line and emitted every request.
C5_FastMalformedSkipped ==
    /\ [][ (mode = "fast" /\ pc = "parse" /\ IsMalformed(line)) =>
              /\ pc' = "read"
              /\ stdout' = stdout
              /\ stderr' = stderr
              /\ renders' = renders
              /\ exit_code' = -1 ]_vars
    /\ [] ( (/\ mode = "fast" /\ pc = "done"
             /\ \A i \in 1..Len(stdin) : IsMalformed(stdin[i]) \/ Renderable(stdin[i])
             /\ PayloadCount(stderr) = 0)
            => /\ pos = Len(stdin) + 1
               /\ stdout = OutputOf(Len(stdin))
               /\ stderr = << Ready >> )

\* A malformed line skipped, then the request behind it rendered and emitted.
C5_Witness ==
    /\ mode = "fast" /\ pc = "done"
    /\ Len(stdin) = 2 /\ IsMalformed(stdin[1]) /\ Renderable(stdin[2])
    /\ stdout = LineOutput(stdin[2])
    /\ stderr = << Ready >>

-----------------------------------------------------------------------------
(* C6 *)

\* C6 (as claimed): fast mode, any failure other than a JSON parse error
\* (empty or missing html, a value that is not an object, a render
\* exception, a failed write) emits zero bytes on standard output for that
\* request, writes exactly one JSON error payload to the diagnostic stream
\* and ends the loop.
C6_FastFatalZeroBytes ==
    (mode = "fast" /\ exc # "none") =>
        /\ pc \in {"except", "done"}
        /\ stdout = OutputOf(pos - 2)
        /\ PayloadCount(stderr) = (IF pc = "done" THEN 1 ELSE 0)

\* C6 (amended): fast mode, any failure other than a JSON parse error writes
\* exactly one JSON error payload to the diagnostic stream and ends the loop;
\* a failure before the write (empty or missing html, a value that is not an
\* object, a render exception) emits zero bytes for that request, and a
\* failed write has emitted at most a prefix of that request's PDF.
C6_FastFatalTerminates ==
    (mode = "fast" /\ exc # "none") =>
        /\ pc \in {"except", "done"}
        /\ IF exc = "OSError"
           THEN \E n \in 0..Len(pdf_bytes) :
                   stdout = OutputOf(pos - 2) \o Prefix(pdf_bytes, n)
           ELSE stdout = OutputOf(pos - 2)
        /\ PayloadCount(stderr) = (IF pc = "done" THEN 1 ELSE 0)
        /\ pc = "done" => stderr = << Ready, ErrorPayload(exc) >>

\* A write that failed after part of the PDF was out, with a line left unread.
C6_Witness ==
    /\ mode = "fast" /\ pc = "done" /\ exc = "OSError"
    /\ Len(stdout) > 0
    /\ pos = 2 /\ Len(stdin) = 2
    /\ PayloadCount(stderr) = 1

-----------------------------------------------------------------------------
(* C7 *)

\* C7: in both modes every call of the renderer is for a request whose html
\* field is non-empty; a request with empty or missing html is rejected with
\* no render call, and in secure mode its response has success = false, no
\* pdf_base64 field, and the exit code is 1.
C7_RenderOnlyNonEmptyHtml ==
    /\ \A i \in 1..Len(renders) :
          /\ HasHtml(stdin[renders[i].at])
          /\ renders[i].html = stdin[renders[i].at].obj["html"]
    /\ (/\ mode = "secure" /\ pc = "done" /\ pos > 1
        /\ IsRequest(stdin[1]) /\ ~HasHtml(stdin[1]))
       => /\ renders = << >>
          /\ Len(stdout) = 1
          /\ stdout[1].success = FALSE
          /\ "pdf_base64" \notin DOMAIN stdout[1]
          /\ exit_code = 1

\* A request whose html field is present and empty, rejected in secure mode.
C7_Witness ==
    /\ mode = "secure" /\ pc = "done" /\ pos = 2
    /\ IsRequest(stdin[1]) /\ "html" \in DOMAIN stdin[1].obj /\ ~HasHtml(stdin[1])
    /\ Len(stdout) = 1 /\ stdout[1].error = "HTML content is required"
    /\ renders = << >>

-----------------------------------------------------------------------------
(* C8 *)

\* C8: secure mode handles one request per process: at most one line is
\* read, the renderer is called at most once, at most one response is
\* written, whatever follows the first line on standard input.
C8_SecureSingleShot ==
    mode = "secure" =>
        /\ pos <= 2
        /\ Len(renders) <= 1
        /\ Len(stdout) <= 1

\* The first of two renderable requests answered, the second never read.
C8_Witness ==
    /\ mode = "secure" /\ pc = "done" /\ exit_code = 0
    /\ Len(stdin) = 2 /\ Renderable(stdin[1]) /\ Renderable(stdin[2])
    /\ pos = 2 /\ Len(renders) = 1 /\ Len(stdout) = 1

-----------------------------------------------------------------------------
(* C9 *)

\* C9: in both modes the readiness line is written to the diagnostic stream
\* exactly once, at startup: before it nothing has been read and nothing
\* written, after it it is the first and only readiness line of the
\* diagnostic stream, and it never appears on standard output.
C9_ReadyOnceAtStartup ==
    /\ pc = "start" => (pos = 1 /\ stdout = << >> /\ stderr = << >>)
    /\ pc # "start" => (Len(stderr) >= 1 /\ stderr[1] = Ready)
    /\ ReadyCount(stderr) <= 1
    /\ ReadyCount(stdout) = 0

\* A fast process that served two requests and announced itself once.
C9_Witness ==
    /\ mode = "fast" /\ pos = 3 /\ pc = "read"
    /\ renders # << >> /\ Len(stdout) > 0
    /\ ReadyCount(stderr) = 1

-----------------------------------------------------------------------------
(* C10 *)

\* C10: fast mode terminates on every finite input, and when end-of-input is
\* reached with no fatal failure before it, the process exits with every
\* line read, no error payload on the diagnostic stream and no further byte
\* on standard output.
C10_FastTerminates ==
    /\ (mode = "fast") ~> (pc = "done")
    /\ [][ (mode = "fast" /\ pc = "read" /\ pos > Len(stdin)) =>
              (pc' = "done" /\ stdout' = stdout /\ stderr' = stderr) ]_vars
    /\ [] ( (mode = "fast" /\ pc = "done" /\ exc = "none") =>
              (pos = Len(stdin) + 1 /\ PayloadCount(stderr) = 0) )

\* End-of-input reached after a request was served and a bad line skipped.
C10_Witness ==
    /\ mode = "fast" /\ pc = "done" /\ exc = "none"
    /\ Len(stdin) = 2 /\ Renderable(stdin[1]) /\ IsMalformed(stdin[2])
    /\ stdout = LineOutput(stdin[1])
    /\ PayloadCount(stderr) = 0

=============================================================================
